---- MODULE Spec2Model ----
(***************************************************************************)
(* The SSE streaming bridge of fastapi_main.py: the endpoint               *)
(* chat_agent_stream, the async generator generate_sse_stream (the         *)
(* consumer loop and lifecycle sequencer), the producer task               *)
(* process_request and the asyncio queue between them.                     *)
(*                                                                         *)
(* asyncio is cooperative: a coroutine runs without interruption from one  *)
(* suspension point to the next.  A put on the unbounded asyncio.Queue     *)
(* never suspends, so the producer task suspends only inside the planner   *)
(* call; the generator suspends at every yield and inside wait_for when    *)
(* the queue is empty.  Each action below is one such uninterrupted run.   *)
(*                                                                         *)
(* Time is counted in ticks of 0.1 s and only while the consumer loop is   *)
(* waiting on the empty queue, which is the only time the loop measures.   *)
(* Frame payloads (timestamps, echoed fields, planner data) are not        *)
(* modelled: a frame is its event name, the position at which it was       *)
(* pushed, and whether the producer had been silent longer than the        *)
(* request's heartbeat_interval when it pushed it.                         *)
(***************************************************************************)
EXTENDS Naturals, Sequences, FiniteSets

\* ------------------------------------------------------------------ bounds

\* The most domain frames the planner pushes through response_writer.
MaxDomain == 2

\* The most heartbeat frames the consumer loop writes in one stream.
MaxHeartbeats == 1

\* --------------------------------------------------------------- constants

\* wait_for(sse_queue.get(), timeout=1.0), in ticks of 0.1 s.
PollTimeout == 10

\* heartbeat_interval: float = 30.0, in ticks of 0.1 s.
DefaultHeartbeatInterval == 300

\* ----------------------------------------------------------------- requests

\* session_id values: empty, whitespace only, and a real identifier.
SessionIds == { <<>>, <<" ">>, <<"s", "1">> }

\* dialogue_history values: empty and one turn.
DialogueHistories == { <<>>, <<"hi">> }

\* heartbeat_interval values: 0.1 s and the default 30.0 s.
HeartbeatIntervals == { 1, DefaultHeartbeatInterval }

\* Python's None, for an Optional field left out.
NoneValue == "None"

\* language values: left out (None) and "en".
Languages == { NoneValue, "en" }

\* session_metadata values, a dict as its set of (key, value) pairs: empty,
\* and one that carries a language.
SessionMetadatas == { {}, { << "language", "ja" >> } }

\* The default of session_metadata.get('language', 'zh').
DefaultLanguage == "zh"

\* dict.get(key, default).
DictGet(d, key, default) ==
    IF \E kv \in d : kv[1] = key
    THEN (CHOOSE kv \in d : kv[1] = key)[2]
    ELSE default

AgentContextRequest ==
    [ session_id : SessionIds,
      dialogue_history : DialogueHistories,
      session_metadata : SessionMetadatas,
      language : Languages,
      heartbeat_interval : HeartbeatIntervals ]

\* str.strip(): leading and trailing whitespace removed.
RECURSIVE LStrip(_)
LStrip(s) == IF s # <<>> /\ Head(s) = " " THEN LStrip(Tail(s)) ELSE s

RECURSIVE RStrip(_)
RStrip(s) ==
    IF s # <<>> /\ s[Len(s)] = " " THEN RStrip(SubSeq(s, 1, Len(s) - 1)) ELSE s

Strip(s) == RStrip(LStrip(s))

\* ------------------------------------------------------------------- frames

Frame(kind, seq, late) == [ kind |-> kind, seq |-> seq, late |-> late ]

\* The end-of-stream marker, sse_queue.put(None).
IsSentinel(item) == item.kind = "None"

ConnectionFrame == Frame("connection", 0, FALSE)

HeartbeatFrame == Frame("heartbeat", 0, FALSE)

\* What the planner can hand back: a JSON-serialisable dict, a dict that
\* json.dumps rejects, or a serialisable value without a get method (None).
ResultKinds == { "dict", "unserialisable", "nondict" }

VARIABLES
    req,                 \* the request body
    ep_pc,               \* chat_agent_stream: "start", "rejected", "accepted"
    resp,                \* what the endpoint answered
    gen_pc,              \* generate_sse_stream's position
    task_pc,             \* process_request's position
    sse_queue,           \* the asyncio.Queue
    processing_complete, \* the nonlocal flag
    written,             \* frames yielded to the transport, in order
    pushed,              \* every item put on the queue, in order
    outcome,             \* how the planner call ended
    loop_exit,           \* how the consumer loop ended
    joined,              \* the generator passed "if not task.done(): await task"
    waited,              \* ticks the current wait_for has waited
    silence,             \* ticks of waiting since the producer's last put
    language,            \* the language process_request hands to the planner
    stopped_at           \* how many items had been put when the transport failed

vars == << req, ep_pc, resp, gen_pc, task_pc, sse_queue, processing_complete,
           written, pushed, outcome, loop_exit, joined, waited, silence,
           language, stopped_at >>

\* ---------------------------------------------------------------- endpoint

HTTPException(status_code, detail) ==
    [ status_code |-> status_code, detail |-> detail ]

NoFault == HTTPException(0, <<>>)

\* ValidationFault with "if not request.session_id" in place of
\* "if not request.session_id.strip()".
ValidationFaultNoStrip(r) ==
    IF r.session_id = <<>>
    THEN HTTPException(400, <<"session_id is required">>)
    ELSE IF r.dialogue_history = <<>>
         THEN HTTPException(400, <<"dialogue_history cannot be empty">>)
         ELSE NoFault

\* The two checks at the head of chat_agent_stream, in the code's order.
ValidationFault(r) ==
    IF Strip(r.session_id) = <<>>
    THEN HTTPException(400, <<"session_id is required">>)
    ELSE IF r.dialogue_history = <<>>
         THEN HTTPException(400, <<"dialogue_history cannot be empty">>)
         ELSE NoFault

\* The endpoint's own "except Exception as e": the HTTPException raised by a
\* check is an Exception, so it is caught here and raised again as a 500
\* whose detail is str(e), the status and the detail of the one caught.
EndpointHandler(e) == HTTPException(500, <<e.status_code>> \o e.detail)

StreamingResponse == HTTPException(200, <<"text/event-stream">>)

\* chat_agent_stream: validate, then either reject or return the
\* StreamingResponse around a generator that has not run yet.
ChatAgentStream ==
    /\ ep_pc = "start"
    /\ LET fault == ValidationFault(req)
       IN  IF fault # NoFault
           THEN /\ ep_pc' = "rejected"
                /\ resp' = EndpointHandler(fault)
                /\ gen_pc' = gen_pc
           ELSE /\ ep_pc' = "accepted"
                /\ resp' = StreamingResponse
                /\ gen_pc' = "created"
    /\ UNCHANGED << req, task_pc, sse_queue, processing_complete, written,
                    pushed, outcome, loop_exit, joined, waited, silence >>
    /\ UNCHANGED << language, stopped_at >>

\* ---------------------------------------------------------------- consumer

\* QueueGet taking the newest item, as a LIFO queue would.
QueueGetLifo(q) == [ item |-> q[Len(q)], rest |-> SubSeq(q, 1, Len(q) - 1) ]

\* sse_queue.get(): the oldest item and the queue without it.
QueueGet(q) == [ item |-> Head(q), rest |-> Tail(q) ]

HeartbeatsWritten ==
    Cardinality({ i \in 1..Len(written) : written[i].kind = "heartbeat" })

\* One turn of the loop body once get() has an item: the sentinel breaks
\* the loop, anything else is yielded.
Consume ==
    LET got == QueueGet(sse_queue)
    IN  /\ sse_queue' = got.rest
        /\ IF IsSentinel(got.item)
           THEN /\ gen_pc' = "join"
                /\ loop_exit' = "sentinel"
                /\ written' = written
           ELSE /\ gen_pc' = "y_data"
                /\ loop_exit' = loop_exit
                /\ written' = Append(written, got.item)

\* GenStart with asyncio.create_task moved above the first yield.
GenStartSpawnsFirst ==
    /\ gen_pc = "created"
    /\ sse_queue' = <<>>
    /\ processing_complete' = FALSE
    /\ task_pc' = "created"
    /\ written' = Append(written, ConnectionFrame)
    /\ gen_pc' = "y_conn"
    /\ UNCHANGED << req, ep_pc, resp, pushed, outcome, loop_exit, joined,
                    waited, silence >>
    /\ UNCHANGED << language, stopped_at >>

\* The transport starts iterating the generator: it runs to its first
\* yield, the connection frame.
GenStart ==
    /\ gen_pc = "created"
    /\ written' = Append(written, ConnectionFrame)
    /\ gen_pc' = "y_conn"
    /\ UNCHANGED << req, ep_pc, resp, task_pc, sse_queue, processing_complete,
                    pushed, outcome, loop_exit, joined, waited, silence >>
    /\ UNCHANGED << language, stopped_at >>

\* Resumed after the connection frame: the queue and the flag are created,
\* the task is created (scheduled, not yet run) and the loop's first
\* wait_for finds the queue empty.
GenSpawn ==
    /\ gen_pc = "y_conn"
    /\ sse_queue' = <<>>
    /\ processing_complete' = FALSE
    /\ task_pc' = "created"
    /\ gen_pc' = "blocked"
    /\ waited' = 0
    /\ silence' = 0
    /\ UNCHANGED << req, ep_pc, resp, written, pushed, outcome, loop_exit,
                    joined >>
    /\ UNCHANGED << language, stopped_at >>

\* Resumed after yielding a data or heartbeat frame: the next wait_for
\* either finds an item at once or suspends on the empty queue.
GenResume ==
    /\ gen_pc \in { "y_data", "y_hb" }
    /\ IF sse_queue # <<>>
       THEN Consume /\ waited' = waited
       ELSE /\ gen_pc' = "blocked"
            /\ waited' = 0
            /\ UNCHANGED << sse_queue, written, loop_exit >>
    /\ UNCHANGED << req, ep_pc, resp, task_pc, processing_complete, pushed,
                    outcome, joined, silence >>
    /\ UNCHANGED << language, stopped_at >>

\* A put woke the suspended get() and the generator runs before the timer.
GenPop ==
    /\ gen_pc = "blocked"
    /\ sse_queue # <<>>
    /\ Consume
    /\ UNCHANGED << req, ep_pc, resp, task_pc, processing_complete, pushed,
                    outcome, joined, waited, silence >>
    /\ UNCHANGED << language, stopped_at >>

\* OnTimeout without the test of the flag.
OnTimeoutAlwaysHeartbeat(complete) == "heartbeat"

\* What "except asyncio.TimeoutError" does with the flag it reads.
OnTimeout(complete) == IF complete THEN "break" ELSE "heartbeat"

\* wait_for's timer expires.  It cancels the suspended get(); an item put in
\* the same pass of the event loop stays in the queue and TimeoutError is
\* raised all the same, so the queue need not be empty here.
GenTimeout ==
    /\ gen_pc = "blocked"
    /\ waited = PollTimeout
    /\ IF OnTimeout(processing_complete) = "heartbeat"
       THEN /\ HeartbeatsWritten < MaxHeartbeats
            /\ written' = Append(written, HeartbeatFrame)
            /\ gen_pc' = "y_hb"
            /\ loop_exit' = loop_exit
       ELSE /\ written' = written
            /\ gen_pc' = "join"
            /\ loop_exit' = "timeout"
    /\ UNCHANGED << req, ep_pc, resp, task_pc, sse_queue, processing_complete,
                    pushed, outcome, joined, waited, silence >>
    /\ UNCHANGED << language, stopped_at >>

\* GenJoin without lines 233-235: the generator returns right after the loop.
GenJoinSkipped ==
    /\ gen_pc = "join"
    /\ gen_pc' = "done"
    /\ UNCHANGED << req, ep_pc, resp, task_pc, sse_queue, processing_complete,
                    written, pushed, outcome, loop_exit, joined, waited,
                    silence, language, stopped_at >>

\* "if not task.done(): await task", then the generator returns.
GenJoin ==
    /\ gen_pc = "join"
    /\ task_pc = "done"
    /\ joined' = TRUE
    /\ gen_pc' = "done"
    /\ UNCHANGED << req, ep_pc, resp, task_pc, sse_queue, processing_complete,
                    written, pushed, outcome, loop_exit, waited, silence >>
    /\ UNCHANGED << language, stopped_at >>

\* The remote consumer goes away while the generator is suspended at a yield
\* or in wait_for: GeneratorExit or CancelledError is thrown in, neither is
\* an Exception, and the generator has no finally block.
TransportFault ==
    /\ gen_pc \in { "y_conn", "y_data", "y_hb", "blocked" }
    /\ gen_pc' = "closed"
    /\ stopped_at' = Len(pushed)
    /\ UNCHANGED << req, ep_pc, resp, task_pc, sse_queue, processing_complete,
                    written, pushed, outcome, loop_exit, joined, waited,
                    silence >>
    /\ UNCHANGED << language >>

\* A tenth of a second passes while the loop waits on the empty queue.  The
\* silence counter stops one tick past the poll timeout.
Tick ==
    /\ gen_pc = "blocked"
    /\ sse_queue = <<>>
    /\ waited < PollTimeout
    /\ waited' = waited + 1
    /\ silence' = IF silence <= PollTimeout THEN silence + 1 ELSE silence
    /\ UNCHANGED << req, ep_pc, resp, gen_pc, task_pc, sse_queue,
                    processing_complete, written, pushed, outcome, loop_exit,
                    joined >>
    /\ UNCHANGED << language, stopped_at >>

\* ---------------------------------------------------------------- producer

\* asyncio.Queue(): maxsize 0, which means no limit.
QueueMaxSize == 0

\* QueueFull for asyncio.Queue(maxsize=1).
QueueFullBounded(q) == Len(q) >= 1

\* Queue.full(): put suspends the caller while this holds.
QueueFull(q) == QueueMaxSize > 0 /\ Len(q) >= QueueMaxSize

DomainPushed ==
    Cardinality({ i \in 1..Len(pushed) : pushed[i].kind = "domain" })

\* The items one uninterrupted run of the task puts on the queue, numbered
\* in put order.  The first is marked when the producer had been silent for
\* longer than request.heartbeat_interval.
NewItems(kinds) ==
    [ i \in 1..Len(kinds) |->
        Frame(kinds[i], Len(pushed) + i,
              i = 1 /\ silence > req.heartbeat_interval) ]

\* The try body after the planner call and the except clause, by how the
\* planner call ended: the event names put on the queue before the finally
\* block runs.
\*   "raise"           the call raised: the error event;
\*   "dict"            complete, close, and the log line reads result.get;
\*   "unserialisable"  json.dumps(completion_event) raises: the error event;
\*   "nondict"         complete and close are put, then result.get raises in
\*                     the log line and the except clause puts the error event.
TryExcept(o) ==
    CASE o = "raise" -> << "error" >>
      [] o = "dict" -> << "complete", "close" >>
      [] o = "unserialisable" -> << "error" >>
      [] o = "nondict" -> << "complete", "close", "error" >>

\* ProcessRequestExit with the flag and the sentinel at the end of the try
\* body instead of in a finally block.
ProcessRequestExitNoFinally(o) ==
    IF o = "dict"
    THEN [ kinds |-> TryExcept(o) \o << "None" >>, complete |-> TRUE ]
    ELSE [ kinds |-> TryExcept(o), complete |-> processing_complete ]

\* ProcessRequestExit with a finally block that only puts the sentinel.
ProcessRequestExitNoFlag(o) ==
    [ kinds |-> TryExcept(o) \o << "None" >>, complete |-> processing_complete ]

\* process_request from the end of the planner call to its return: the try
\* body or the except clause, then the finally block, which sets the flag and
\* puts the sentinel.
ProcessRequestExit(o) ==
    [ kinds |-> TryExcept(o) \o << "None" >>, complete |-> TRUE ]

\* The task's first run: it builds agent_context and suspends inside
\* sse_api.process_request_stream.
TaskStart ==
    /\ task_pc = "created"
    /\ task_pc' = "planner"
    /\ language' = DictGet(req.session_metadata, "language", DefaultLanguage)
    /\ UNCHANGED << req, ep_pc, resp, gen_pc, sse_queue, processing_complete,
                    written, pushed, outcome, loop_exit, joined, waited,
                    silence >>
    /\ UNCHANGED << stopped_at >>

\* The planner calls response_writer, that is queue_sse_data, with one domain
\* event and suspends again.
PlannerEmit ==
    /\ task_pc = "planner"
    /\ DomainPushed < MaxDomain
    /\ ~QueueFull(sse_queue)
    /\ LET items == NewItems(<< "domain" >>)
       IN  /\ sse_queue' = sse_queue \o items
           /\ pushed' = pushed \o items
    /\ silence' = 0
    /\ UNCHANGED << req, ep_pc, resp, gen_pc, task_pc, processing_complete,
                    written, outcome, loop_exit, joined, waited >>
    /\ UNCHANGED << language, stopped_at >>

\* The planner call ends as o and the task runs to its end without
\* suspending.
TaskFinish(o) ==
    /\ task_pc = "planner"
    /\ ~QueueFull(sse_queue)
    /\ LET exit == ProcessRequestExit(o)
           items == NewItems(exit.kinds)
       IN  /\ sse_queue' = sse_queue \o items
           /\ pushed' = pushed \o items
           /\ processing_complete' = exit.complete
    /\ outcome' = o
    /\ task_pc' = "done"
    /\ silence' = 0
    /\ UNCHANGED << req, ep_pc, resp, gen_pc, written, loop_exit, joined,
                    waited >>
    /\ UNCHANGED << language, stopped_at >>

PlannerReturn == \E r \in ResultKinds : TaskFinish(r)

PlannerRaise == TaskFinish("raise")

\* ----------------------------------------------------------- specification

Init ==
    /\ req \in AgentContextRequest
    /\ ep_pc = "start"
    /\ resp = NoFault
    /\ gen_pc = "none"
    /\ task_pc = "none"
    /\ sse_queue = <<>>
    /\ processing_complete = FALSE
    /\ written = <<>>
    /\ pushed = <<>>
    /\ outcome = "pending"
    /\ loop_exit = "none"
    /\ joined = FALSE
    /\ waited = 0
    /\ silence = 0
    /\ language = NoneValue
    /\ stopped_at = 0

Next ==
    \/ ChatAgentStream
    \/ GenStart
    \/ GenSpawn
    \/ GenResume
    \/ GenPop
    \/ GenTimeout
    \/ GenJoin
    \/ TransportFault
    \/ Tick
    \/ TaskStart
    \/ PlannerEmit
    \/ PlannerReturn
    \/ PlannerRaise

Spec == Init /\ [][Next]_vars

\* The generator's next step, whichever it is.
Generator ==
    GenStart \/ GenSpawn \/ GenResume \/ GenPop \/ GenTimeout \/ GenJoin

\* The event loop runs every callback that is ready and the transport keeps
\* asking for the next chunk until it fails: the generator, one sequential
\* coroutine, takes its next step once one stays enabled.  Nothing is
\* assumed of the planner or of the remote consumer.
FairSpec == Spec /\ WF_vars(Generator)

\* ------------------------------------------------------------ observations

\* The event names written to the transport, heartbeats aside.
WrittenKinds ==
    LET f == SelectSeq(written, LAMBDA x : x.kind # "heartbeat")
    IN  [ i \in 1..Len(f) |-> f[i].kind ]

\* k is connection, domain*, then exactly tail.
HasShape(k, tail) ==
    /\ Len(k) >= 1 + Len(tail)
    /\ k[1] = "connection"
    /\ \A i \in 2..(Len(k) - Len(tail)) : k[i] = "domain"
    /\ SubSeq(k, Len(k) - Len(tail) + 1, Len(k)) = tail

CountWritten(kind) ==
    Cardinality({ i \in 1..Len(written) : written[i].kind = kind })

\* The generator ran to its end: the loop was left and the task joined.
StreamEnded == gen_pc = "done"

\* ------------------------------------------------------------------ claims

\* C1: in a stream whose planner call raises, the frames written are
\* connection, domain*, error, close (heartbeats aside): one error frame in
\* place of complete, still followed by close.
C1_ErrorThenClose ==
    (outcome = "raise" /\ StreamEnded)
        => HasShape(WrittenKinds, << "error", "close" >>)

\* C2: on every exit path of process_request the sentinel is put on the
\* queue exactly once and is the last item the task ever puts.
C2_SentinelOnceAndLast ==
    /\ \A i \in 1..Len(pushed) : IsSentinel(pushed[i]) => i = Len(pushed)
    /\ task_pc = "done" => (pushed # <<>> /\ IsSentinel(pushed[Len(pushed)]))

\* C2 witness: the task ended by a fault raised in its own body after the
\* planner returned, and the sentinel is the last item it put.
C2_Witness ==
    /\ task_pc = "done"
    /\ outcome = "nondict"
    /\ IsSentinel(pushed[Len(pushed)])
    /\ pushed[Len(pushed) - 1].kind = "error"

\* C3: once the planner call has returned or raised, the consumer loop
\* eventually exits and the generator finishes, under fair scheduling.
C3_GeneratorFinishes == (task_pc = "done") ~> (gen_pc \in { "done", "closed" })

\* C3 witness: the generator finished after the loop was left on a timeout
\* with the flag set, heartbeats having been written on the way.
C3_Witness ==
    /\ gen_pc = "done"
    /\ loop_exit = "timeout"
    /\ HeartbeatsWritten > 0

\* C4: in a stream whose planner call returns a result, the frames written
\* are connection, domain*, complete, close (heartbeats aside) and nothing
\* follows the close.
C4_CompleteThenClose ==
    (outcome \in ResultKinds /\ StreamEnded)
        => HasShape(WrittenKinds, << "complete", "close" >>)

\* C5: a stream carries exactly one of complete and error, never both, and
\* never an error after a close.
C5_OneTerminalOutcome ==
    /\ ~(CountWritten("complete") > 0 /\ CountWritten("error") > 0)
    /\ \A i, j \in 1..Len(written) :
          (written[i].kind = "close" /\ written[j].kind = "error") => j < i
    /\ StreamEnded => CountWritten("complete") + CountWritten("error") = 1

\* C6: when the transport fails mid-stream nothing more is written and the
\* producer task is still joined before the generator is released.
C6_JoinedOnTransportFault ==
    gen_pc = "closed" => (joined /\ task_pc = "done")

\* C7: a frame the producer puts after staying silent for longer than
\* request.heartbeat_interval is preceded on the transport by a heartbeat.
C7_HeartbeatWithinInterval ==
    \A i \in 1..Len(written) :
        written[i].late => (i > 1 /\ written[i - 1].kind = "heartbeat")

\* C8: frames put on the queue in the order A then B and both written are
\* written A before B.
C8_NoReorder ==
    \A i, j \in 1..Len(written) :
        (i < j /\ written[i].seq > 0 /\ written[j].seq > 0)
            => written[i].seq < written[j].seq

\* C8 witness: two domain frames and a terminal frame are written with a
\* heartbeat between them.
C8_Witness ==
    \E i, j, k \in 1..Len(written) :
        /\ i < j /\ j < k
        /\ written[i].kind = "domain"
        /\ written[j].kind = "heartbeat"
        /\ written[k].kind = "domain"
        /\ written[Len(written)].kind = "close"

\* C9: the first frame written is the connection frame, and it has been
\* written when the producer task is created.
C9_ConnectionFirst ==
    /\ [](written # <<>> => written[1] = ConnectionFrame)
    /\ [][(task_pc = "none" /\ task_pc' # "none")
             => (written # <<>> /\ written[1] = ConnectionFrame)]_vars

\* C9 witness: the task has just been created and the connection frame is
\* the only frame written.
C9_Witness == task_pc = "created" /\ written = << ConnectionFrame >>

\* session_id is empty or only whitespace, or dialogue_history is empty.
InvalidRequest ==
    \/ \A i \in 1..Len(req.session_id) : req.session_id[i] = " "
    \/ Len(req.dialogue_history) = 0

\* C10: a request with an empty or whitespace-only session_id or an empty
\* dialogue_history is rejected: no StreamingResponse, no generator, no
\* queue item, no task and no frame.
C10_InvalidNeverStreams ==
    InvalidRequest =>
        /\ ep_pc \in { "start", "rejected" }
        /\ resp # StreamingResponse
        /\ gen_pc = "none"
        /\ task_pc = "none"
        /\ written = <<>>
        /\ pushed = <<>>

\* C10 witness: a whitespace-only session_id with a non-empty history has
\* been rejected.
C10_Witness ==
    /\ req.session_id = << " " >>
    /\ req.dialogue_history # <<>>
    /\ ep_pc = "rejected"

\* C11: after the loop is left, by the sentinel or by a timeout with the flag
\* set, the generator passes the join once, as its last act, and finishes
\* only when the producer task has terminated.
C11_JoinedAfterLoop ==
    /\ gen_pc = "done" => (joined /\ task_pc = "done")
    /\ joined => gen_pc = "done"
    /\ loop_exit # "none" => (gen_pc \in { "join", "done" } /\ task_pc = "done")

\* C11 witness: the loop was left on a timeout with the flag set, items
\* still queued, and the generator has joined the task and finished.
C11_Witness ==
    /\ loop_exit = "timeout"
    /\ joined
    /\ task_pc = "done"
    /\ sse_queue # <<>>

SentinelPushed == \E i \in 1..Len(pushed) : IsSentinel(pushed[i])

\* C13: processing_complete is set before the sentinel is put (whenever the
\* sentinel is queued or was popped the flag is true), it never goes back to
\* false, and only the producer task's last run changes it.
C13_FlagSetOnceBeforeSentinel ==
    /\ [](SentinelPushed => processing_complete)
    /\ [][processing_complete => processing_complete']_vars
    /\ [][(processing_complete' # processing_complete)
             => (task_pc = "planner" /\ task_pc' = "done")]_vars

\* C13 witness: the planner raised, the consumer popped the sentinel and
\* the flag is set.
C13_Witness ==
    /\ outcome = "raise"
    /\ loop_exit = "sentinel"
    /\ processing_complete

\* This step appends a heartbeat frame to the transport.
WroteHeartbeat ==
    /\ Len(written') = Len(written) + 1
    /\ written'[Len(written')] = HeartbeatFrame

\* This step is wait_for raising TimeoutError: the generator leaves its
\* wait without taking an item and without being closed.
TimeoutStep ==
    /\ gen_pc = "blocked"
    /\ gen_pc' \notin { "blocked", "closed" }
    /\ sse_queue' = sse_queue

\* The parts of C14 about the flag: a timeout with the flag set writes
\* nothing and leaves the loop, and a step that takes an item off the queue
\* writes no heartbeat.
TimeoutAndPopRules ==
    /\ (TimeoutStep /\ processing_complete)
          => (written' = written /\ gen_pc' = "join" /\ loop_exit' = "timeout")
    /\ Len(sse_queue') < Len(sse_queue) => ~WroteHeartbeat

\* C14 as stated: a heartbeat is written only by a pop that timed out with
\* nothing queued while processing_complete is false; a timeout with the
\* flag set writes nothing and ends the loop; a successful pop writes no
\* heartbeat.
C14_HeartbeatOnlyOnEmptyTimeout ==
    [][ /\ WroteHeartbeat =>
             /\ gen_pc = "blocked" /\ waited = PollTimeout
             /\ ~processing_complete
             /\ sse_queue = <<>>
        /\ TimeoutAndPopRules ]_vars

\* C14 amended: a heartbeat is written only by a pop that timed out while
\* processing_complete is false, whether or not an item was put in the same
\* pass; a timeout with the flag set writes nothing and ends the loop; a
\* successful pop writes no heartbeat.
C14_HeartbeatOnlyOnTimeout ==
    [][ /\ WroteHeartbeat =>
             /\ gen_pc = "blocked" /\ waited = PollTimeout
             /\ ~processing_complete
             /\ sse_queue' = sse_queue
        /\ TimeoutAndPopRules ]_vars

\* C14 witness: a heartbeat has just been written by a timeout while an
\* item is queued and the flag is not set.
C14_Witness ==
    /\ gen_pc = "y_hb"
    /\ waited = PollTimeout
    /\ written[Len(written)] = HeartbeatFrame
    /\ sse_queue # <<>>
    /\ ~processing_complete

\* The consumer reads no more: the transport failed or the generator ended.
ConsumerStopped == gen_pc \in { "closed", "done" }

\* C15: a put never waits for a pop: while the task is inside the planner
\* call its next run is enabled whatever the consumer does; once the
\* consumer has stopped nothing more is written, and a task that ended
\* after that has still set processing_complete and put the sentinel.
C15_ProducerNeverBlocked ==
    /\ [](task_pc = "planner" => ENABLED PlannerRaise)
    /\ []((ConsumerStopped /\ task_pc = "done")
            => (processing_complete /\ SentinelPushed
                /\ IsSentinel(pushed[Len(pushed)])))
    /\ [][ConsumerStopped => (written' = written /\ gen_pc' = gen_pc)]_vars

\* C15 witness: the transport failed after the connection frame; the task
\* then put a domain frame and its last items, none of which was written.
C15_Witness ==
    /\ gen_pc = "closed"
    /\ task_pc = "done"
    /\ stopped_at = 0
    /\ Len(pushed) > 2
    /\ pushed[1].kind = "domain"
    /\ sse_queue = pushed
    /\ written = << ConnectionFrame >>
    /\ processing_complete

\* C16: a rejected request is answered with the HTTPException the
\* validation raised: status 400 and the detail of the failed check.
C16_RejectionIs400 ==
    ep_pc = "rejected"
        => /\ resp.status_code = 400
           /\ resp = ValidationFault(req)
           /\ resp.detail \in { << "session_id is required" >>,
                                 << "dialogue_history cannot be empty" >> }

\* The language the request asks for: its own language field when it has
\* one, the fallback otherwise.
RequestedLanguage ==
    IF req.language # NoneValue THEN req.language ELSE DefaultLanguage

\* C17: the planner is called with the request's own language when the
\* request supplies one, and with the fallback only when it does not.
C17_PlannerLanguage ==
    task_pc \in { "planner", "done" } => language = RequestedLanguage

\* The frames written that came from the queue, and the frames the
\* producer put before the sentinel.
PayloadWritten ==
    SelectSeq(written, LAMBDA f : f.kind \notin { "connection", "heartbeat" })

PayloadPushed == SelectSeq(pushed, LAMBDA f : ~IsSentinel(f))

\* C18: when the consumer loop has exited, by the sentinel or by a timeout
\* with processing_complete set, every frame put before the sentinel has
\* been written, in order.
C18_NoFrameLoss ==
    loop_exit # "none" => PayloadWritten = PayloadPushed

TerminalKinds == { "complete", "error", "close" }

\* C19: once a complete, error or close frame has been written, no
\* heartbeat frame is written after it in that stream.
C19_NoHeartbeatAfterTerminal ==
    \A i \in 1..Len(written) : \A j \in 1..Len(written) :
        (i < j /\ written[i].kind \in TerminalKinds)
            => written[j].kind # "heartbeat"

\* C19 witness: a finished stream in which a heartbeat was written while
\* the planner was silent and the terminal frames were written after it.
C19_Witness ==
    /\ gen_pc = "done"
    /\ loop_exit = "sentinel"
    /\ \E i \in 1..Len(written) : \E j \in 1..Len(written) :
          /\ i < j
          /\ written[i].kind = "heartbeat"
          /\ written[j].kind = "complete"
    /\ written[Len(written)].kind \in TerminalKinds

====
